---- MODULE Spec2Model ----
(***************************************************************************)
(* PrinterBuffer (src/src/index.ts): a buffer of ESC/POS fragments, one    *)
(* serial port handle opened lazily, and the asynchronous print() and      *)
(* close() calls, run against a transport that completes every open,       *)
(* write, drain and close with success or failure and may emit 'error'     *)
(* and 'close' events of its own.                                          *)
(*                                                                         *)
(* Scheduling is the one of the node.js event loop: the synchronous part   *)
(* of a call is one step; a continuation behind an await is an entry of    *)
(* the microtask queue mq, run in FIFO order; a transport completion or    *)
(* event is a step taken only when mq is empty; the caller may call at any *)
(* time.  A continuation that does nothing but return (print() after the   *)
(* drain callback resolved, close() after the 'close' listener resolved)   *)
(* is folded into the step that settles it.                                *)
(***************************************************************************)
EXTENDS Naturals, Sequences, FiniteSets

\* ---- bounds of the model
MaxPrints == 2
MaxCloses == 1
MaxBuf == 2
MaxErrors == 1
MaxDisconnects == 1
MaxCalls == 3
MaxFeeds == 1

\* ---- program constants
NoHandle == 0
NoPromise == 0
ESC == 27
Alignment ==
  [LEFT |-> <<27, 97, 0>>, CENTER |-> <<27, 97, 1>>, RIGHT |-> <<27, 97, 2>>]
TextSize ==
  [NORMAL |-> <<27, 33, 0>>, DOUBLE_HEIGHT |-> <<27, 33, 16>>,
   DOUBLE_WIDTH |-> <<27, 33, 32>>, DOUBLE_BOTH |-> <<27, 33, 48>>]

\* String.fromCharCode(n): the UTF-16 code unit n modulo 2^16
FromCharCode(n) == n % 65536

\* Commands
CmdInit == <<ESC, 64>>
CmdAlign(alignment) == alignment
SetTextSize(size) == size
FeedLinesAsDigit(n) == <<ESC, 100, 48 + (n % 10)>>
FeedLines(n) == <<ESC, 100, FromCharCode(n)>>
Line(text) == text \o <<10>>
CmdBoldOn == <<ESC, 69>>
CmdBoldOff == <<ESC, 70>>

\* feed(n: number = 2)
FeedDefault == 2

\* the arguments the caller is drawn to pass
Texts == {<<65>>}
Alignments == {Alignment.LEFT, Alignment.CENTER, Alignment.RIGHT}
TextSizes == {TextSize.NORMAL, TextSize.DOUBLE_HEIGHT, TextSize.DOUBLE_WIDTH,
              TextSize.DOUBLE_BOTH}
FeedCounts == {0, 1, 255}
Bytes == 0..255

\* an Error is its message, the sequence of the parts the code joins with
\* ": "; the transport's own messages are single parts
NoError == <<>>
ErrOpenFailed == <<"open failed">>
ErrOpening == <<"Port is opening">>
ErrWriteFailed == <<"write failed">>
ErrDrainFailed == <<"drain failed">>
ErrNotOpen == <<"Port is not open">>
ErrDevice == <<"device error">>

\* an error that loses what it wraps
WrapDropsCause(prefix, error) == <<prefix>>

\* new Error(`${prefix}: ${error.message}`)
Wrap(prefix, error) == <<prefix>> \o error

VARIABLES
  options,      \* this.options, as far as the session could read it
  buffer,       \* this.buffer: the pending fragments, each a sequence of bytes
  port,         \* this.port: NoHandle or the index of a handle
  openPromise,  \* this.openPromise: NoPromise or the index of a promise
  handles,      \* every SerialPort constructed: transport flags and listeners
  promises,     \* every open promise created: its handle and its state
  prints,       \* every print() call: its position and what it did
  closes,       \* every close() call
  ops,          \* transport operations issued and not yet completed
  mq,           \* microtask queue: continuations ready to run, FIFO
  crashed,      \* an exception escaped a callback, or 'error' had no listener
  log           \* counters of what was invoked (observation only)

vars == <<options, buffer, port, openPromise, handles, promises, prints,
          closes, ops, mq, crashed, log>>

St == [options |-> options,
       buffer |-> buffer, port |-> port, openPromise |-> openPromise,
       handles |-> handles, promises |-> promises, prints |-> prints,
       closes |-> closes, ops |-> ops, mq |-> mq, crashed |-> crashed,
       log |-> log]

Becomes(S) ==
  /\ options' = S.options
  /\ buffer' = S.buffer
  /\ port' = S.port
  /\ openPromise' = S.openPromise
  /\ handles' = S.handles
  /\ promises' = S.promises
  /\ prints' = S.prints
  /\ closes' = S.closes
  /\ ops' = S.ops
  /\ mq' = S.mq
  /\ crashed' = S.crashed
  /\ log' = S.log

\* ---- the transport (SerialPort) as the session uses it

\* new SerialPort({..., autoOpen: false}) followed by port.on('close', ...)
NewHandle ==
  [bound |-> FALSE, opening |-> FALSE, closing |-> FALSE,
   lopen |-> <<>>, lerror |-> <<>>,
   lclose |-> <<[t |-> "setup", id |-> 0]>>]

\* this.port?.isOpen
IsOpen(S, h) ==
  /\ h # NoHandle
  /\ S.handles[h].bound
  /\ ~S.handles[h].closing

\* port.open(cb): refused (an error handed to cb later) on a handle that is
\* open or opening, started otherwise
TransportOpen(S, h, p) ==
  LET refused == IsOpen(S, h) \/ S.handles[h].opening
      S1 == IF refused THEN S ELSE [S EXCEPT !.handles[h].opening = TRUE]
  IN [S1 EXCEPT !.ops = @ \cup {[op |-> "open", h |-> h, id |-> p,
                                 forced |-> refused, data |-> <<>>]},
                !.log.opens = @ + 1]

\* port.close(cb): refused on a handle that is not open
TransportClose(S, h, k) ==
  LET refused == ~IsOpen(S, h)
      S1 == IF refused THEN S ELSE [S EXCEPT !.handles[h].closing = TRUE]
  IN [S1 EXCEPT !.ops = @ \cup {[op |-> "close", h |-> h, id |-> k,
                                 forced |-> refused, data |-> <<>>]},
                !.log.closes = @ + 1]

\* port.write(data, cb)
TransportWrite(S, h, c, data) ==
  [S EXCEPT !.ops = @ \cup {[op |-> "write", h |-> h, id |-> c,
                             forced |-> FALSE, data |-> data]},
            !.log.writes = @ + 1]

\* port.drain(cb): refused on a handle that is not open
TransportDrain(S, h, c) ==
  [S EXCEPT !.ops = @ \cup {[op |-> "drain", h |-> h, id |-> c,
                             forced |-> ~IsOpen(S, h), data |-> <<>>]}]

\* ---- promises

Enqueue(q, t, ids) ==
  LET RECURSIVE Go(_, _)
      Go(acc, n) ==
        IF n > Len(ids) THEN acc
        ELSE Go(Append(acc, [t |-> t, id |-> ids[n]]), n + 1)
  IN Go(q, 1)

\* the print() calls awaiting promise p, in the order they started to wait
Waiters(S, p) ==
  LET RECURSIVE Go(_, _)
      Go(acc, c) ==
        IF c > Len(S.prints) THEN acc
        ELSE IF S.prints[c].pc = "awaitOpen" /\ S.prints[c].p = p
             THEN Go(Append(acc, c), c + 1)
             ELSE Go(acc, c + 1)
  IN Go(<<>>, 1)

\* resolve() / reject(e) of an open promise: every waiter becomes ready
SettleOpen(S, p, how, e) ==
  IF S.promises[p].st # "pending" THEN S
  ELSE [S EXCEPT !.promises[p].st = how,
                 !.promises[p].err = e,
                 !.mq = Enqueue(@, "print", Waiters(S, p))]

\* reject(e) of the promise print() c awaits around write and drain
RejectPrint(S, c, stage, e) ==
  IF S.prints[c].pc \notin {"write", "drain"} THEN S
  ELSE [S EXCEPT !.prints[c].pc = "catching",
                 !.prints[c].stage = stage,
                 !.prints[c].err = e,
                 !.prints[c].data = <<>>,
                 !.mq = Append(@, [t |-> "print", id |-> c])]

\* resolve() of that promise: print() c returns
ResolvePrint(S, c) ==
  LET S1 == [S EXCEPT !.prints[c].resolves = @ + 1]
  IN IF S.prints[c].pc \notin {"write", "drain"} THEN S1
     ELSE [S1 EXCEPT !.prints[c].pc = "resolved", !.prints[c].data = <<>>]

\* reject() of the promise close() k awaits
RejectClose(S, k) ==
  IF S.closes[k].pc # "closing" THEN S
  ELSE [S EXCEPT !.closes[k].pc = "catching",
                 !.mq = Append(@, [t |-> "close", id |-> k])]

\* resolve() of that promise: close() k returns
ResolveClose(S, k) ==
  IF S.closes[k].pc # "closing" THEN S
  ELSE [S EXCEPT !.closes[k].pc = "resolved"]

\* ---- the session's listeners and callbacks

\* a setupPort that takes the last handle constructed back
SetupPortReuses(S) ==
  IF S.port # NoHandle THEN S
  ELSE IF Len(S.handles) > 0 THEN [S EXCEPT !.port = Len(S.handles)]
  ELSE [S EXCEPT !.handles = Append(@, NewHandle),
                 !.port = Len(S.handles) + 1]

\* setupPort: nothing when a handle exists, else a new handle with the
\* 'close' listener on it
SetupPort(S) ==
  IF S.port # NoHandle THEN S
  ELSE [S EXCEPT !.handles = Append(@, NewHandle),
                 !.port = Len(S.handles) + 1]

\* a 'close' listener that does nothing
OnPortCloseIgnored(S) == S

\* the 'close' listener setupPort registers
OnPortClose(S) ==
  [S EXCEPT !.port = NoHandle, !.openPromise = NoPromise]

\* an 'open' listener that leaves the in-flight open recorded
OnOpenKeepsPromise(S, p) == SettleOpen(S, p, "resolved", NoError)

\* the one-time 'open' listener of ensurePortOpen, for promise p
OnOpen(S, p) ==
  SettleOpen([S EXCEPT !.openPromise = NoPromise], p, "resolved", NoError)

\* the callback of port.open, called with the error err
OnOpenError(S, p, err) ==
  SettleOpen([S EXCEPT !.openPromise = NoPromise], p, "rejected",
             Wrap("Failed to open port", err))

\* onError of print() c: this.port?.removeListener('error', onError), reject
OnPrintError(S, c, error) ==
  LET me == [t |-> "print", id |-> c]
      S1 == IF S.port = NoHandle THEN S
            ELSE [S EXCEPT !.handles[S.port].lerror =
                             SelectSeq(@, LAMBDA l : l # me)]
  IN RejectPrint(S1, c, "event", Wrap("Port error during write", error))

\* a drain callback that resolves and leaves the buffer as it is
OnDrainDoneKeepsBuffer(S, c, drainError) ==
  IF drainError # NoError
  THEN RejectPrint(S, c, "drain", Wrap("Drain error", drainError))
  ELSE ResolvePrint([S EXCEPT !.prints[c].ddone = TRUE], c)

\* the callback of port.drain in print() c, called with drainError
OnDrainDone(S, c, drainError) ==
  IF drainError # NoError
  THEN RejectPrint(S, c, "drain", Wrap("Drain error", drainError))
  ELSE ResolvePrint([S EXCEPT !.buffer = <<>>, !.prints[c].ddone = TRUE], c)

\* a write callback that takes the write for the whole job: clears and resolves
OnWriteDoneNoDrain(S, c, writeError) ==
  IF writeError # NoError
  THEN RejectPrint(S, c, "write", Wrap("Write error", writeError))
  ELSE ResolvePrint([S EXCEPT !.buffer = <<>>, !.prints[c].wdone = TRUE], c)

\* the callback of port.write in print() c, called with writeError: on
\* success this.port!.drain(...), which throws when this.port is null
OnWriteDone(S, c, writeError) ==
  IF writeError # NoError
  THEN RejectPrint(S, c, "write", Wrap("Write error", writeError))
  ELSE IF S.port = NoHandle
       THEN [S EXCEPT !.prints[c].wdone = TRUE, !.crashed = TRUE]
       ELSE TransportDrain(
              [S EXCEPT !.prints[c].wdone = TRUE,
                        !.prints[c].dissued = TRUE,
                        !.prints[c].pc = IF @ = "write" THEN "drain" ELSE @],
              S.port, c)

\* a catch block that forgets the handle's reset
CatchResetKeepsPort(S) ==
  [S EXCEPT !.openPromise = NoPromise]

\* the catch block of print(): this.port = null, this.openPromise = null
CatchReset(S) ==
  [S EXCEPT !.port = NoHandle, !.openPromise = NoPromise]

\* print() c throws new Error(`Print failed: ...`) out of its catch block:
\* it rejects
PrintCatch(S, c, stage, error) ==
  LET S1 == CatchReset(S)
  IN [S1 EXCEPT !.prints[c].pc = "rejected",
                !.prints[c].stage = stage,
                !.prints[c].err = Wrap("Print failed", error),
                !.log.discarded = @ \cup ({S.port} \ {NoHandle})]

\* the one-time 'close' listener of close() k
OnCloseClosed(S, k) ==
  ResolveClose([S EXCEPT !.port = NoHandle, !.openPromise = NoPromise], k)

\* the one-time 'error' listener of close() k, and the callback of
\* port.close called with an error
OnCloseError(S, k) ==
  RejectClose([S EXCEPT !.port = NoHandle, !.openPromise = NoPromise,
                        !.closes[k].err = (@ \/ S.closes[k].pc = "closing")],
              k)

\* a catch block of close() that only rethrows
CloseCatchKeepsPort(S, k) ==
  [S EXCEPT !.closes[k].pc = "rejected"]

\* the catch block of close()
CloseCatch(S, k) ==
  [S EXCEPT !.port = NoHandle, !.openPromise = NoPromise,
            !.closes[k].pc = "rejected"]

RunListener(S, l, ev, arg) ==
  CASE l.t = "setup" -> OnPortClose(S)
    [] l.t = "open"  -> OnOpen(S, l.id)
    [] l.t = "print" -> OnPrintError(S, l.id, arg)
    [] l.t = "close" -> IF ev = "close" THEN OnCloseClosed(S, l.id)
                        ELSE OnCloseError(S, l.id)

Listeners(S, h, ev) ==
  CASE ev = "open"  -> S.handles[h].lopen
    [] ev = "error" -> S.handles[h].lerror
    [] ev = "close" -> S.handles[h].lclose

\* port.emit(ev, arg): the listeners registered at that moment run in the
\* order of their registration; one-time listeners are unregistered
Emit(S, h, ev, arg) ==
  LET L == Listeners(S, h, ev)
      S1 == [S EXCEPT
               !.handles[h].lopen = IF ev = "open" THEN <<>> ELSE @,
               !.handles[h].lerror =
                  IF ev = "error"
                  THEN SelectSeq(@, LAMBDA l : l.t # "close") ELSE @,
               !.handles[h].lclose =
                  IF ev = "close"
                  THEN SelectSeq(@, LAMBDA l : l.t # "close") ELSE @]
      RECURSIVE Go(_, _)
      Go(T, n) == IF n > Len(L) THEN T
                  ELSE Go(RunListener(T, L[n], ev, arg), n + 1)
  IN Go(S1, 1)

\* ---- print() up to its first await

\* ensurePortOpen without the look at this.openPromise
EnsureCaseNoReuse(S) ==
  IF IsOpen(S, S.port) THEN "open" ELSE "start"

\* ensurePortOpen without the look at this.port.isOpen
EnsureCaseNoOpenTest(S) ==
  IF S.openPromise # NoPromise THEN "pending" ELSE "start"

\* which way ensurePortOpen goes
EnsureCase(S) ==
  IF IsOpen(S, S.port) THEN "open"
  ELSE IF S.openPromise # NoPromise THEN "pending"
  ELSE "start"

\* the new Promise of ensurePortOpen: the 'open' listener, port.open(cb)
StartOpen(S, c) ==
  LET p == Len(S.promises) + 1
      h == S.port
      S1 == [S EXCEPT !.promises = Append(@, [h |-> h, st |-> "pending",
                                              err |-> NoError]),
                      !.handles[h].lopen = Append(@, [t |-> "open", id |-> p]),
                      !.openPromise = p,
                      !.prints[c].p = p]
  IN TransportOpen(S1, h, p)

EnsurePortOpen(S, c) ==
  CASE EnsureCase(S) = "open" ->
         [S EXCEPT !.mq = Append(@, [t |-> "print", id |-> c])]
    [] EnsureCase(S) = "pending" ->
         [S EXCEPT !.prints[c].p = S.openPromise]
    [] EnsureCase(S) = "start" -> StartOpen(SetupPort(S), c)

\* print() without its empty-buffer return
BufferEmptyUnchecked(b) == FALSE

\* this.buffer.length === 0
BufferEmpty(b) == Len(b) = 0

\* observation: the caller made a builder, clear or print call after print c
TouchAll(S) ==
  [S EXCEPT !.prints = [c \in DOMAIN @ |-> [@[c] EXCEPT !.touched = TRUE]]]

\* observation: the buffer as the caller's last call left it
Held(S) == [S EXCEPT !.log.held = S.buffer]

NewPrint(b, pc) ==
  [pc |-> pc, p |-> NoPromise, h |-> NoHandle, empty |-> BufferEmpty(b),
   touched |-> FALSE, stage |-> "", err |-> NoError, resolves |-> 0,
   wopen |-> FALSE, data |-> <<>>,
   wdone |-> FALSE, dissued |-> FALSE, ddone |-> FALSE]

PrintCall(S) ==
  LET c == Len(S.prints) + 1
      S0 == Held(TouchAll(S))
  IN IF BufferEmpty(S.buffer)
     THEN [S0 EXCEPT !.prints = Append(@, NewPrint(S.buffer, "resolved"))]
     ELSE EnsurePortOpen(
            [S0 EXCEPT !.prints = Append(@, NewPrint(S.buffer, "awaitOpen"))],
            c)

\* ---- print() after await this.ensurePortOpen()

RECURSIVE Join(_)
Join(b) == IF b = <<>> THEN <<>> ELSE Head(b) \o Join(Tail(b))

\* a join that loses the first fragment
PayloadDropsFirst(b) == IF b = <<>> THEN <<>> ELSE Join(Tail(b))

\* this.buffer.join('')
Payload(b) == Join(b)

\* the write promise of print(): data, port.on('error', onError), port.write
StartWrite(S, c) ==
  LET h == S.port
      S1 == [S EXCEPT !.prints[c].pc = "write",
                      !.prints[c].h = h,
                      !.prints[c].wopen = IsOpen(S, h),
                      !.prints[c].data = Payload(S.buffer),
                      !.handles[h].lerror = Append(@, [t |-> "print", id |-> c])]
  IN TransportWrite(S1, h, c, S1.prints[c].data)

\* if (!this.port?.isOpen) throw new Error('Port is not open')
PortUsable(S) == IsOpen(S, S.port)

AfterOpen(S, c) ==
  LET p == S.prints[c].p
  IN IF p # NoPromise /\ S.promises[p].st = "rejected"
     THEN PrintCatch(S, c, "open", S.promises[p].err)
     ELSE IF ~PortUsable(S) THEN PrintCatch(S, c, "notopen", ErrNotOpen)
     ELSE StartWrite(S, c)

\* ---- close()

\* close() without its early return
NoPortToCloseUnchecked(S) == FALSE

\* if (!this.port) return
NoPortToClose(S) == S.port = NoHandle

CloseCall(S) ==
  LET k == Len(S.closes) + 1
      h == S.port
  IN IF NoPortToClose(S)
     THEN [S EXCEPT !.closes = Append(@, [pc |-> "resolved", h |-> NoHandle,
                                       err |-> FALSE])]
     ELSE TransportClose(
            [S EXCEPT !.closes = Append(@, [pc |-> "closing", h |-> h,
                                            err |-> FALSE]),
                      !.handles[h].lclose = Append(@, [t |-> "close", id |-> k]),
                      !.handles[h].lerror = Append(@, [t |-> "close", id |-> k])],
            h, k)

\* ---- the builders

\* a builder that starts the buffer over with its fragment
PushReplaces(S, fragment) == [S EXCEPT !.buffer = <<fragment>>]

Push(S, fragment) == [S EXCEPT !.buffer = Append(@, fragment)]

\* init()
InitCall(S) == Push(S, CmdInit)

\* align(alignment)
AlignCall(S, alignment) == Push(S, CmdAlign(alignment))

\* a size() that goes back to the normal size
SizeCallRestores(S, size) ==
  Push(Push(S, SetTextSize(size)), SetTextSize(TextSize.NORMAL))

\* size(size)
SizeCall(S, size) == Push(S, SetTextSize(size))

\* a text() that pushes the text as it is
TextCallNoNewline(S, text) == Push(S, text)

\* text(text)
TextCall(S, text) == Push(S, Line(text))

\* feed(n = 2), called with the arguments args
FeedCall(S, args) ==
  Push(S, FeedLines(IF args = <<>> THEN FeedDefault ELSE args[1]))

\* clear()
ClearCall(S) == [S EXCEPT !.buffer = <<>>]

\* a bold() that takes the emphasis off again
BoldCallOnOff(S) == Push(Push(S, CmdBoldOn), CmdBoldOff)

\* bold()
BoldCall(S) == Push(S, CmdBoldOn)

\* boldOff()
BoldOffCall(S) == Push(S, CmdBoldOff)

\* ---- the state after construction

\* {baudRate: 9600, autoOpen: true, ...options}: given is <<>> when the
\* caller leaves autoOpen out, <<b>> when the caller passes autoOpen: b
MergeOptions(given) ==
  [autoOpen |-> IF given = <<>> THEN TRUE ELSE given[1]]

NothingLogged ==
  [opens |-> 0, closes |-> 0, errors |-> 0, disconnects |-> 0,
   writes |-> 0, discarded |-> {}, gone |-> {}, held |-> <<>>,
   failed |-> {}, calls |-> <<>>, lost |-> {}]

\* a constructor that hands autoOpen on to a SerialPort it constructs
ConstructorEager(given) ==
  /\ options = MergeOptions(given)
  /\ buffer = <<>>
  /\ port = IF options.autoOpen THEN 1 ELSE NoHandle
  /\ openPromise = NoPromise
  /\ handles = IF options.autoOpen
               THEN <<[NewHandle EXCEPT !.opening = TRUE]>> ELSE <<>>
  /\ promises = <<>>
  /\ prints = <<>>
  /\ closes = <<>>
  /\ ops = {}
  /\ mq = <<>>
  /\ crashed = FALSE
  /\ log = NothingLogged

\* new PrinterBuffer({portPath, autoOpen})
Constructor(given) ==
  /\ options = MergeOptions(given)
  /\ buffer = <<>>
  /\ port = NoHandle
  /\ openPromise = NoPromise
  /\ handles = <<>>
  /\ promises = <<>>
  /\ prints = <<>>
  /\ closes = <<>>
  /\ ops = {}
  /\ mq = <<>>
  /\ crashed = FALSE
  /\ log = NothingLogged

\* the session constructed with the default options
Init == Constructor(<<>>)

\* the session constructed with autoOpen left out, true or false
InitOptions == \E given \in {<<>>, <<TRUE>>, <<FALSE>>} : Constructor(given)

\* ---- the caller

\* init()
BuildInit ==
  /\ ~crashed
  /\ Len(buffer) < MaxBuf
  /\ Becomes(Held(InitCall(TouchAll(St))))

\* text(text)
BuildText ==
  /\ ~crashed
  /\ Len(buffer) < MaxBuf
  /\ \E t \in Texts : Becomes(Held(TextCall(TouchAll(St), t)))

\* clear()
Clear ==
  /\ ~crashed
  /\ buffer # <<>>
  /\ Becomes(Held(ClearCall(TouchAll(St))))

\* print(), up to its first await
PrintStart ==
  /\ ~crashed
  /\ Len(prints) < MaxPrints
  /\ Becomes(PrintCall(St))

\* close(), up to its await
CloseStart ==
  /\ ~crashed
  /\ Len(closes) < MaxCloses
  /\ Becomes(CloseCall(St))

\* ---- continuations, in the order of the microtask queue

\* a transport call refused: its callback gets the error on the next tick,
\* ahead of every continuation, completion and event
RefusedOps == {o \in ops : o.forced}

Ready(t, pc) ==
  /\ ~crashed
  /\ RefusedOps = {}
  /\ mq # <<>>
  /\ Head(mq).t = t
  /\ IF t = "print" THEN prints[Head(mq).id].pc = pc
     ELSE closes[Head(mq).id].pc = pc

Dequeued == [St EXCEPT !.mq = Tail(@)]

\* print() resumes after await this.ensurePortOpen()
PrintContinue ==
  /\ Ready("print", "awaitOpen")
  /\ Becomes(AfterOpen(Dequeued, Head(mq).id))

\* print() resumes in its catch block after the write promise rejected
PrintRejects ==
  /\ Ready("print", "catching")
  /\ Becomes(PrintCatch(Dequeued, Head(mq).id, prints[Head(mq).id].stage,
                         prints[Head(mq).id].err))

\* close() resumes in its catch block
CloseRejects ==
  /\ Ready("close", "catching")
  /\ Becomes(CloseCatch(Dequeued, Head(mq).id))

\* ---- the transport: completions and events

Idle == ~crashed /\ mq = <<>> /\ RefusedOps = {}

Done(o) == [St EXCEPT !.ops = @ \ {o}]

\* observation: the transport hands the error m to the callback of the
\* operation o, or to the 'error' listeners of the handle o.id (the n-th
\* 'error' event)
Failing(S, o, m) ==
  [S EXCEPT !.log.failed =
     @ \cup {[op |-> o.op, id |-> o.id, msg |-> m,
              n |-> IF o.op = "event" THEN S.log.errors ELSE 0]}]

\* observation: the drain of print() c completes while the buffer holds
\* more than the payload print() c wrote
Lost(S, c) ==
  IF S.prints[c].pc = "drain" /\ Payload(S.buffer) # S.prints[c].data
  THEN [S EXCEPT !.log.lost = @ \cup {c}]
  ELSE S

\* the open succeeds: 'open' is emitted, then cb(null)
OpenOk ==
  /\ Idle
  /\ \E o \in ops :
       /\ o.op = "open"
       /\ Becomes(Emit([Done(o) EXCEPT !.handles[o.h].bound = TRUE,
                                       !.handles[o.h].opening = FALSE],
                       o.h, "open", NoError))

\* the open fails: cb(err)
OpenFail ==
  /\ Idle
  /\ \E o \in ops :
       /\ o.op = "open"
       /\ Becomes(OnOpenError(
                    Failing([Done(o) EXCEPT !.handles[o.h].opening = FALSE],
                            o, ErrOpenFailed),
                    o.id, ErrOpenFailed))

WriteOk ==
  /\ Idle
  /\ \E o \in ops :
       /\ o.op = "write" /\ handles[o.h].bound
       /\ Becomes(OnWriteDone(Done(o), o.id, NoError))

WriteFail ==
  /\ Idle
  /\ \E o \in ops :
       /\ o.op = "write"
       /\ Becomes(OnWriteDone(Failing(Done(o), o, ErrWriteFailed), o.id,
                              ErrWriteFailed))

DrainOk ==
  /\ Idle
  /\ \E o \in ops :
       /\ o.op = "drain" /\ handles[o.h].bound
       /\ Becomes(OnDrainDone(Lost(Done(o), o.id), o.id, NoError))

DrainFail ==
  /\ Idle
  /\ \E o \in ops :
       /\ o.op = "drain"
       /\ Becomes(OnDrainDone(Failing(Done(o), o, ErrDrainFailed), o.id,
                              ErrDrainFailed))

\* the close succeeds: 'close' is emitted, then cb(null)
CloseOk ==
  /\ Idle
  /\ \E o \in ops :
       /\ o.op = "close"
       /\ Becomes(Emit([Done(o) EXCEPT !.handles[o.h].bound = FALSE,
                                       !.handles[o.h].closing = FALSE],
                       o.h, "close", NoError))

\* the close fails: cb(err)
CloseFail ==
  /\ Idle
  /\ \E o \in ops :
       /\ o.op = "close"
       /\ Becomes(OnCloseError([Done(o) EXCEPT !.handles[o.h].closing = FALSE],
                               o.id))

\* the callback of a refused open, drain or close is called with the error
Refused ==
  /\ ~crashed
  /\ \E o \in RefusedOps :
       Becomes(CASE o.op = "open" ->
                      OnOpenError(Failing(Done(o), o, ErrOpening), o.id,
                                  ErrOpening)
                 [] o.op = "drain" ->
                      OnDrainDone(Failing(Done(o), o, ErrNotOpen), o.id,
                                  ErrNotOpen)
                 [] o.op = "close" -> OnCloseError(Done(o), o.id))

\* the handle emits 'error'; with no listener the event is thrown
ErrorEvent ==
  /\ Idle
  /\ log.errors < MaxErrors
  /\ \E h \in DOMAIN handles :
       /\ handles[h].bound \/ handles[h].opening
       /\ LET S == Failing([St EXCEPT !.log.errors = @ + 1],
                            [op |-> "event", id |-> h], ErrDevice)
          IN IF handles[h].lerror = <<>>
             THEN Becomes([S EXCEPT !.crashed = TRUE])
             ELSE Becomes(Emit(S, h, "error", ErrDevice))

\* the transport closes an open handle on its own: 'close' is emitted
Disconnect ==
  /\ Idle
  /\ log.disconnects < MaxDisconnects
  /\ \E h \in DOMAIN handles :
       /\ handles[h].bound /\ ~handles[h].closing
       /\ Becomes(Emit([St EXCEPT !.handles[h].bound = FALSE,
                                  !.log.disconnects = @ + 1,
                                  !.log.gone = @ \cup {h}],
                       h, "close", NoError))

Next ==
  \/ BuildInit \/ BuildText \/ Clear \/ PrintStart \/ CloseStart
  \/ PrintContinue \/ PrintRejects \/ CloseRejects
  \/ OpenOk \/ OpenFail \/ WriteOk \/ WriteFail \/ DrainOk \/ DrainFail
  \/ CloseOk \/ CloseFail \/ Refused \/ ErrorEvent \/ Disconnect

Spec == Init /\ [][Next]_vars

SpecOptions == InitOptions /\ [][Next]_vars

\* ---- the builders alone: every chain of at most MaxCalls builder calls
\* since construction or the last clear(), each call with the arguments the
\* caller wrote (those past the method's parameters are ignored)

\* observation: the caller called method m with the arguments args
Called(S, m, args) ==
  [S EXCEPT !.log.calls = Append(@, [m |-> m, args |-> args])]

MayCall == Len(log.calls) < MaxCalls

\* with or without a text as the last argument
OptText == {<<>>} \cup {<<t>> : t \in Texts}

CallInit ==
  /\ MayCall
  /\ Becomes(InitCall(Called(St, "init", <<>>)))

CallAlign ==
  /\ MayCall
  /\ \E a \in Alignments : Becomes(AlignCall(Called(St, "align", <<a>>), a))

CallSize ==
  /\ MayCall
  /\ \E z \in TextSizes, t \in OptText :
       Becomes(SizeCall(Called(St, "size", <<z>> \o t), z))

CallText ==
  /\ MayCall
  /\ \E t \in Texts : Becomes(TextCall(Called(St, "text", <<t>>), t))

CallFeed ==
  /\ MayCall
  /\ \E args \in {<<>>} \cup {<<n>> : n \in FeedCounts} :
       Becomes(FeedCall(Called(St, "feed", args), args))

CallBold ==
  /\ MayCall
  /\ \E t \in OptText : Becomes(BoldCall(Called(St, "bold", t)))

CallBoldOff ==
  /\ MayCall
  /\ Becomes(BoldOffCall(Called(St, "boldOff", <<>>)))

CallClear ==
  /\ buffer # <<>>
  /\ Becomes(ClearCall([St EXCEPT !.log.calls = <<>>]))

NextBuild ==
  \/ CallInit \/ CallAlign \/ CallSize \/ CallText \/ CallFeed
  \/ CallBold \/ CallBoldOff \/ CallClear

SpecBuild == Init /\ [][NextBuild]_vars

\* ---- feed alone: every count of one byte, and the call without a count

FeedAny ==
  /\ Len(log.calls) < MaxFeeds
  /\ \E args \in {<<>>} \cup {<<n>> : n \in Bytes} :
       Becomes(FeedCall(Called(St, "feed", args), args))

NextFeed == FeedAny

SpecFeed == Init /\ [][NextFeed]_vars

\* ---- what the claims speak of

Settled == {"resolved", "rejected"}

\* this step is a print() call
IsPrintCall == Len(prints') = Len(prints) + 1

\* this step is a close() call
IsCloseCall == Len(closes') = Len(closes) + 1

\* the transport writes issued in this step
NewWrites == {o \in ops' \ ops : o.op = "write"}

\* this step constructs a handle, makes it the session's and opens it
FreshOpen ==
  /\ Len(handles') = Len(handles) + 1
  /\ port' = Len(handles')
  /\ log'.opens = log.opens + 1
  /\ openPromise' = Len(promises')
  /\ Len(promises') = Len(promises) + 1
  /\ \E o \in ops' \ ops : o.op = "open" /\ o.h = port' /\ ~o.forced

InMq(t, id) == \E i \in DOMAIN mq : mq[i] = [t |-> t, id |-> id]

\* the session's lifecycle state
Closed == port = NoHandle /\ openPromise = NoPromise
Opening == port # NoHandle /\ ~IsOpen(St, port) /\ openPromise # NoPromise

\* C1: a print() on a non-empty buffer started while an open is in flight
\* constructs no handle and invokes no transport open, it waits on the
\* promise of the open in flight; and the calls waiting on one open are all
\* released by the step that completes it.
C1_Reuse ==
  (IsPrintCall /\ buffer # <<>> /\ Opening) =>
     /\ Len(handles') = Len(handles)
     /\ log'.opens = log.opens
     /\ openPromise' = openPromise
     /\ prints'[Len(prints')].pc = "awaitOpen"
     /\ prints'[Len(prints')].p = openPromise

C1_Together ==
  \A c \in DOMAIN prints :
    (prints[c].pc = "awaitOpen" /\ prints[c].p # NoPromise
       /\ promises[prints[c].p].st # "pending") => InMq("print", c)

\* C1: prints started while an open is in flight share that one open and
\* one handle, and are released together when it completes.
C1_OneOpenInFlight == [][C1_Reuse]_vars /\ []C1_Together

C1_Witness ==
  /\ Len(prints) = 2 /\ Len(handles) = 1 /\ log.opens = 1
  /\ prints[1].p # NoPromise /\ prints[2].p = prints[1].p
  /\ InMq("print", 1) /\ InMq("print", 2)
  /\ promises[prints[1].p].st = "resolved"

\* C2: once print() has rejected, and until the caller's next builder, clear
\* or print call, the pending buffer is the one the caller left at the call.
C2_BufferKept ==
  \A c \in DOMAIN prints :
    (prints[c].pc = "rejected" /\ ~prints[c].touched) => buffer = log.held

\* C3: in every print() on a non-empty buffer the write is issued on an open
\* handle, the drain is issued after the write completed, the call resolves
\* only after its drain completed and through one resolve(), a print whose
\* drain completed and that was not rejected has resolved, and the step
\* that resolves it leaves the buffer empty.
C3_Order ==
  \A c \in DOMAIN prints :
    /\ prints[c].h # NoHandle => prints[c].wopen
    /\ prints[c].wdone => prints[c].h # NoHandle
    /\ prints[c].dissued => prints[c].wdone
    /\ prints[c].ddone => prints[c].dissued
    /\ prints[c].resolves <= 1
    /\ (prints[c].pc = "resolved" /\ ~prints[c].empty) =>
          prints[c].ddone /\ prints[c].resolves = 1
    /\ (prints[c].ddone /\ prints[c].stage = "") => prints[c].pc = "resolved"

C3_Clears ==
  \A c \in DOMAIN prints :
    (prints[c].pc # "resolved" /\ prints'[c].pc = "resolved") =>
       buffer' = <<>>

\* C3: write after open, drain after write, clear and resolve after drain,
\* one resolve, the buffer empty at the resolve.
C3_WriteDrainResolve == [][C3_Clears]_vars /\ []C3_Order

C3_Witness ==
  \E c \in DOMAIN prints :
    /\ prints[c].pc = "resolved" /\ ~prints[c].empty
    /\ prints[c].ddone /\ buffer = <<>>

\* C4: a print() on an empty buffer returns at once and touches nothing: no
\* handle, no promise, no transport operation, no continuation, and the
\* connection state is the one before.
C4_Noop ==
  (IsPrintCall /\ buffer = <<>>) =>
     /\ prints'[Len(prints')].pc = "resolved"
     /\ UNCHANGED <<buffer, port, openPromise, handles, promises, closes,
                    ops, mq, crashed>>
     /\ log'.opens = log.opens /\ log'.closes = log.closes
     /\ log'.writes = log.writes

\* C4: print() on an empty buffer resolves at once and changes nothing.
C4_EmptyPrintTouchesNothing == [][C4_Noop]_vars

\* an empty print on a session whose handle is open
C4_Witness ==
  \E c \in DOMAIN prints :
    /\ prints[c].empty /\ prints[c].pc = "resolved"
    /\ IsOpen(St, port) /\ log.opens = 1

\* C5: the step in which a print() rejects leaves the session Closed; a
\* print() on a non-empty buffer started in that state after a failure
\* constructs a new handle and opens it; and no write is ever issued on a
\* handle that a failed print discarded.
C5_Reset ==
  \A c \in DOMAIN prints :
    (prints[c].pc # "rejected" /\ prints'[c].pc = "rejected") =>
       port' = NoHandle /\ openPromise' = NoPromise

C5_Retry ==
  (IsPrintCall /\ buffer # <<>> /\ Closed
     /\ \E c \in DOMAIN prints : prints[c].pc = "rejected") => FreshOpen

C5_NoStaleWrite ==
  \A o \in NewWrites : o.h \notin log.discarded /\ o.h = port'

\* C5: a rejected print() leaves the session Closed, the next print opens
\* a new handle, and discarded handles are never written to.
C5_ClosedAfterFailure ==
  /\ [][C5_Reset /\ C5_Retry /\ C5_NoStaleWrite]_vars
  /\ [](port \notin log.discarded)

C5_Witness ==
  /\ Len(prints) = 2
  /\ prints[1].pc = "rejected" /\ prints[1].h # NoHandle
  /\ prints[2].h # NoHandle /\ prints[2].h # prints[1].h
  /\ log.held # <<>>

RECURSIVE FlatLen(_, _)
FlatLen(b, n) == IF n = 0 THEN 0 ELSE FlatLen(b, n - 1) + Len(b[n])

\* the bytes of the fragments of b, in the order of b
Flat(b) ==
  [i \in 1..FlatLen(b, Len(b)) |->
     LET k == CHOOSE j \in 1..Len(b) :
                FlatLen(b, j - 1) < i /\ i <= FlatLen(b, j)
     IN b[k][i - FlatLen(b, k - 1)]]

\* C6: a print() issues at most one transport write, one once it is past
\* the open, and the payload of the write is the bytes of all the fragments
\* of the pending buffer, in insertion order.
C6_Payload ==
  \A o \in NewWrites : o.data = Flat(buffer)

C6_Once ==
  /\ log.writes = Cardinality({c \in DOMAIN prints : prints[c].h # NoHandle})
  /\ \A c \in DOMAIN prints :
       prints[c].pc \in {"write", "drain"} \/ prints[c].wdone =>
          prints[c].h # NoHandle
  /\ \A o1, o2 \in ops :
       (o1.op = "write" /\ o2.op = "write" /\ o1.id = o2.id) => o1 = o2

\* C6: one write per print, its payload all fragments in insertion order.
C6_OneWriteWholeBuffer == [][C6_Payload]_vars /\ []C6_Once

C6_Witness ==
  \E o \in ops :
    /\ o.op = "write" /\ Len(buffer) = 2 /\ buffer[1] # buffer[2]
    /\ o.data = buffer[1] \o buffer[2]

\* C7: the step in which a close() call on a session with a handle settles
\* leaves the session Closed; it rejects only when the transport handed an
\* error to it, a call that was handed one does not resolve, and one that
\* resolves does so after the transport close was invoked on its handle.
C7_Settles ==
  \A k \in DOMAIN closes :
    (closes[k].h # NoHandle /\ closes[k].pc \notin Settled
       /\ closes'[k].pc \in Settled) =>
          /\ port' = NoHandle /\ openPromise' = NoPromise
          /\ closes'[k].pc = "resolved" => ~handles'[closes[k].h].bound

C7_Outcome ==
  \A k \in DOMAIN closes :
    /\ closes[k].pc \in {"catching", "rejected"} <=> closes[k].err
    /\ (closes[k].pc = "resolved" /\ closes[k].h # NoHandle) =>
          /\ log.closes >= 1
          /\ \A o \in ops : ~(o.op = "close" /\ o.id = k)

\* C7: a settled close() leaves the session Closed, rejected exactly when
\* the transport handed it an error.
C7_CloseLeavesClosed == [][C7_Settles]_vars /\ []C7_Outcome

\* a close() that the transport failed has rejected, the session is Closed
C7_Witness ==
  \E k \in DOMAIN closes :
    /\ closes[k].pc = "rejected" /\ closes[k].h # NoHandle
    /\ handles[closes[k].h].bound
    /\ Closed

\* C8: a close() on a session with no handle returns at once: it invokes no
\* transport close, registers nothing and changes no state.
C8_Noop ==
  (IsCloseCall /\ port = NoHandle) =>
     /\ closes'[Len(closes')].pc = "resolved"
     /\ closes'[Len(closes')].h = NoHandle
     /\ log'.closes = log.closes
     /\ UNCHANGED <<buffer, port, openPromise, handles, promises, prints,
                    ops, mq, crashed>>

C9_Reopen ==
  (IsPrintCall /\ buffer # <<>> /\ Closed
     /\ \E k \in DOMAIN closes :
          closes[k].pc \in Settled /\ closes[k].h # NoHandle) => FreshOpen

C9_NoWriteOnClosed ==
  \A o \in NewWrites :
    /\ handles[o.h].bound
    /\ \A k \in DOMAIN closes :
         closes[k].pc \in Settled => closes[k].h # o.h

\* C9: after a settled close() a print() opens a new handle before it
\* writes.
C9_PrintAfterCloseReopens ==
  /\ [][C9_Reopen /\ C9_NoWriteOnClosed]_vars
  /\ [](\A k \in DOMAIN closes :
          (closes[k].pc \in Settled /\ closes[k].h # NoHandle) =>
             port # closes[k].h)

C9_Witness ==
  \E k \in DOMAIN closes, c \in DOMAIN prints :
    /\ closes[k].pc = "resolved" /\ closes[k].h # NoHandle
    /\ prints[c].h # NoHandle /\ prints[c].h > closes[k].h
    /\ log.opens = 2

\* this step is an unsolicited closure of the handle the session holds open
IsDisconnectOfPort ==
  /\ log'.disconnects = log.disconnects + 1
  /\ IsOpen(St, port)
  /\ ~handles'[port].bound

\* C10: an unsolicited closure of the open handle leaves the session Closed,
\* the next print() on a non-empty buffer constructs a new handle and opens
\* it, and no write is issued on a handle the transport closed.
C10_Reset == IsDisconnectOfPort => port' = NoHandle /\ openPromise' = NoPromise

C10_Reopen ==
  (IsPrintCall /\ buffer # <<>> /\ Closed /\ log.gone # {}) => FreshOpen

C10_NoWriteOnGone == \A o \in NewWrites : o.h \notin log.gone

\* C10: an unsolicited closure of the open handle resets the session, and
\* the next print() opens a new handle instead of writing to the stale one.
C10_DisconnectReopens ==
  /\ [][C10_Reset /\ C10_Reopen /\ C10_NoWriteOnGone]_vars
  /\ [](port \notin log.gone)

C10_Witness ==
  \E c \in DOMAIN prints :
    /\ log.gone = {1} /\ ~handles[1].bound
    /\ prints[c].h = 2 /\ log.opens = 2
    /\ \A k \in DOMAIN closes : closes[k].h = NoHandle
\* the handles that emit 'error' in this step
ErrorEventsNow ==
  {f.id : f \in {g \in log'.failed \ log.failed : g.op = "event"}}

\* the write or the drain of print c is in flight
InFlight(c) == prints[c].pc \in {"write", "drain"}

C11_Rejects ==
  \A c \in DOMAIN prints :
    /\ (InFlight(c) /\ prints[c].h \in ErrorEventsNow) =>
          /\ prints'[c].pc = "catching"
          /\ prints'[c].stage = "event"
          /\ prints'[c].err = <<"Port error during write">> \o ErrDevice
    /\ (prints[c].stage = "event" /\ prints[c].pc = "catching") =>
          prints'[c].pc \in {"catching", "rejected"}

C11_NotResolved ==
  \A c \in DOMAIN prints :
    prints[c].stage = "event" =>
       /\ prints[c].pc \in {"catching", "rejected"}
       /\ prints[c].pc = "rejected" => port # prints[c].h

C11_Kept ==
  \A c \in DOMAIN prints :
    (prints[c].stage = "event" /\ prints[c].pc = "rejected"
       /\ ~prints[c].touched) => buffer = log.held

\* C11: an 'error' event of the handle while the write or the drain of a
\* print() is in flight rejects that print (it never resolves), the handle
\* is no longer the session's once it has rejected, and the buffer is the
\* one the caller left until the caller's next call.
C11_ErrorEventFailsPrint ==
  [][C11_Rejects]_vars /\ [](C11_NotResolved /\ C11_Kept)

\* the fragments the builder call r is to leave in the buffer
Fragments(r) ==
  CASE r.m = "init"    -> <<<<27, 64>>>>
    [] r.m = "align"   -> <<r.args[1]>>
    [] r.m = "size"    -> <<r.args[1]>>
    [] r.m = "text"    -> <<r.args[1] \o <<10>>>>
    [] r.m = "feed"    -> <<<<27, 100, IF r.args = <<>> THEN 2 ELSE r.args[1]>>>>
    [] r.m = "bold"    -> <<<<27, 69>>>>
    [] r.m = "boldOff" -> <<<<27, 70>>>>

RECURSIVE AllFragments(_)
AllFragments(calls) ==
  IF calls = <<>> THEN <<>>
  ELSE Fragments(Head(calls)) \o AllFragments(Tail(calls))

\* C12: after every chain of builder calls from an empty buffer the pending
\* buffer is the fragments of the calls in call order, each verbatim: the
\* sequence of init, the alignment or size passed, the text and one newline,
\* ESC d and the count, the emphasis sequences.
C12_BufferIsCallsInOrder == buffer = AllFragments(log.calls)

\* init(); text("A"); feed(1)
C12_Witness ==
  /\ Len(log.calls) = 3
  /\ log.calls[1].m = "init" /\ log.calls[2].m = "text"
  /\ log.calls[3].m = "feed" /\ log.calls[3].args = <<1>>
  /\ buffer = <<<<27, 64>>, <<65, 10>>, <<27, 100, 1>>>>

\* this step is a call of the builder m
IsCall(m) ==
  /\ Len(log'.calls) = Len(log.calls) + 1
  /\ log'.calls[Len(log'.calls)].m = m

LastArgs == log'.calls[Len(log'.calls)].args

Count(b, f) == Cardinality({i \in DOMAIN b : b[i] = f})

C18_FeedEncodesCount ==
  \A i \in DOMAIN log.calls :
    LET r == log.calls[i]
        n == IF r.args = <<>> THEN 2 ELSE r.args[1]
    IN r.m = "feed" =>
         /\ Len(buffer) = Len(log.calls)
         /\ Len(buffer[i]) = 3
         /\ buffer[i][1] = 27 /\ buffer[i][2] = 100
         /\ buffer[i][3] = n /\ buffer[i][3] \in 0..255

\* feed(255), the largest count
C18_Witness ==
  /\ Len(log.calls) = 1 /\ log.calls[1].args = <<255>>
  /\ buffer = <<<<27, 100, 255>>>>

\* no print() on a non-empty buffer was called yet
NoJobYet == \A c \in DOMAIN prints : prints[c].empty

\* an open of the session's handle is in flight or done
OpenStarted ==
  /\ port # NoHandle
  /\ handles[port].opening \/ handles[port].bound

C15_Eager == (options.autoOpen /\ Len(prints) = 0) => OpenStarted

C15_Lazy ==
  (~options.autoOpen /\ NoJobYet) => handles = <<>> /\ log.opens = 0

C15_FirstJobOpens ==
  (~options.autoOpen /\ NoJobYet /\ IsPrintCall /\ buffer # <<>>) =>
     FreshOpen

C15_NothingBeforeJob ==
  NoJobYet =>
    /\ handles = <<>> /\ port = NoHandle /\ openPromise = NoPromise
    /\ promises = <<>> /\ ops = {} /\ log.opens = 0

C15_JobOpens ==
  /\ (NoJobYet /\ IsPrintCall /\ buffer # <<>>) =>
        FreshOpen /\ Len(handles') = 1 /\ Cardinality(ops') = 1
  /\ options' = options

HandedTo(f, c) ==
  \/ f.op = "open" /\ f.id = prints[c].p
  \/ f.op \in {"write", "drain"} /\ f.id = c
  \/ f.op = "event" /\ f.id = prints[c].h

\* how the error of a print names the stage of the failure f
StageTag(f) ==
  CASE f.op = "open"  -> "Failed to open port"
    [] f.op = "write" -> "Write error"
    [] f.op = "drain" -> "Drain error"
    [] f.op = "event" -> "Port error during write"

\* the error of print c names the stage of a failure handed to it and ends
\* with that failure's message
Tagged(c) ==
  \E f \in log.failed :
    /\ HandedTo(f, c)
    /\ prints[c].err = <<"Print failed", StageTag(f)>> \o f.msg

C16_NotSwallowed ==
  \A c \in DOMAIN prints :
    prints[c].pc = "resolved" =>
       /\ prints[c].err = NoError
       /\ \A f \in log.failed :
            f.op \in {"open", "write", "drain"} => ~HandedTo(f, c)

\* C16 as stated: every rejected print() carries an error naming the stage
\* that failed and the transport's message, and no print() resolves after
\* its open, write or drain failed.
C16_EveryRejectionTagged ==
  /\ \A c \in DOMAIN prints : prints[c].pc = "rejected" => Tagged(c)
  /\ C16_NotSwallowed

\* print c found no open handle after its wait for the open: the open it
\* waited on did not fail and it issued no write
FoundNotOpen(c) ==
  /\ prints[c].err = <<"Print failed", "Port is not open">>
  /\ prints[c].h = NoHandle
  /\ prints[c].p # NoPromise => promises[prints[c].p].st = "resolved"

\* C16: every rejected print() carries one error, "Print failed" followed
\* either by the stage of a failure the transport handed to it and that
\* failure's message, or by "Port is not open" when it found no open handle
\* after waiting for the open; no print() resolves after its open, write or
\* drain failed.
C16_TaggedOrNotOpen ==
  /\ \A c \in DOMAIN prints :
       prints[c].pc = "rejected" => Tagged(c) \/ FoundNotOpen(c)
  /\ C16_NotSwallowed

\* one print rejected by a failed drain, one by finding the port not open
C16_Witness ==
  \E c, d \in DOMAIN prints :
    /\ prints[c].pc = "rejected"
    /\ prints[c].err = <<"Print failed", "Drain error", "drain failed">>
    /\ prints[d].pc = "rejected" /\ FoundNotOpen(d)

\* the transport opens the session issued that have not completed
OpensInFlight == {o \in ops : o.op = "open" /\ ~o.forced}

\* C17: in every reachable state at most one transport open issued by the
\* session is in flight.
C17_AtMostOneOpen == Cardinality(OpensInFlight) <= 1

C19_Reuses ==
  (IsPrintCall /\ buffer # <<>> /\ IsOpen(St, port)) =>
     /\ UNCHANGED <<port, openPromise, handles, promises, ops>>
     /\ log'.opens = log.opens
     /\ prints'[Len(prints')].pc = "awaitOpen"
     /\ prints'[Len(prints')].p = NoPromise
     /\ mq' = Append(mq, [t |-> "print", id |-> Len(prints')])

\* no close() on a handle, no failure or 'error' event, no disconnect so far
Undisturbed ==
  /\ \A k \in DOMAIN closes : closes[k].h = NoHandle
  /\ log.failed = {} /\ log.disconnects = 0
  /\ \A c \in DOMAIN prints : prints[c].pc \notin {"catching", "rejected"}

C19_OneOpen ==
  Undisturbed =>
     /\ Len(handles) <= 1 /\ log.opens <= 1
     /\ (\E c \in DOMAIN prints : ~prints[c].empty) => log.opens = 1

\* C19: a print() on a non-empty buffer called while the handle is open
\* constructs no handle, invokes no transport open and goes on with the
\* handle there is; as long as no close, failure or disconnect happened,
\* all the prints together caused one open.
C19_OpenIsReused == [][C19_Reuses]_vars /\ []C19_OneOpen

\* two prints resolved one after the other on the handle the first opened
C19_Witness ==
  /\ Len(prints) = 2 /\ Undisturbed
  /\ prints[1].pc = "resolved" /\ prints[1].ddone
  /\ prints[2].pc = "resolved" /\ prints[2].ddone
  /\ prints[2].p = NoPromise /\ prints[2].h = prints[1].h
  /\ log.opens = 1

\* the opens the transport fails in this step
OpenFailuresNow == {f \in log'.failed \ log.failed : f.op = "open"}

C20_Releases ==
  \A f \in OpenFailuresNow :
    /\ promises'[f.id].st = "rejected"
    /\ promises'[f.id].err = <<"Failed to open port">> \o f.msg
    /\ \A c \in DOMAIN prints :
         (prints[c].pc = "awaitOpen" /\ prints[c].p = f.id) =>
            \E i \in DOMAIN mq' : mq'[i] = [t |-> "print", id |-> c]

C20_ClosedAtRelease ==
  \A c \in DOMAIN prints :
    (prints[c].pc = "awaitOpen" /\ prints'[c].pc = "rejected"
       /\ prints'[c].stage = "open") =>
          /\ port' = NoHandle /\ openPromise' = NoPromise
          /\ prints'[c].err = <<"Print failed">> \o promises[prints[c].p].err

\* the listeners left on handle h
ListenersOn(h) == handles[h].lopen \o handles[h].lerror \o handles[h].lclose

C20_NoListenerLeft ==
  \A c \in DOMAIN prints :
    (prints[c].pc = "rejected" /\ prints[c].stage = "open") =>
       ListenersOn(promises[prints[c].p].h) = <<>>

\* C20: when the transport fails an open, every print() waiting on it is
\* released and rejects with the transport's error, the session is Closed
\* when it rejects, and the handle that failed to open carries no listener
\* of the session any more.
C20_OpenFailureCleansUp ==
  [][C20_Releases /\ C20_ClosedAtRelease]_vars /\ []C20_NoListenerLeft

\* C21: once a close() that found a handle has settled, whether the
\* transport closed the handle or failed to, that handle carries no
\* listener of the session.
C21_CloseLeavesNoListener ==
  \A k \in DOMAIN closes :
    (closes[k].h # NoHandle /\ closes[k].pc \in Settled) =>
       ListenersOn(closes[k].h) = <<>>

\* this step is a clear() call on a buffer that held something
IsClearCall == log.held # <<>> /\ log'.held = <<>>

\* the drains the transport completes without an error in this step
DrainsDoneNow ==
  {o \in ops \ ops' : o.op = "drain" /\ log'.failed = log.failed}

C22_Shape ==
  \/ buffer' = buffer
  \/ /\ Len(buffer') > Len(buffer)
     /\ SubSeq(buffer', 1, Len(buffer)) = buffer
  \/ buffer' = <<>>

C22_EmptiedBy ==
  (buffer # <<>> /\ buffer' = <<>>) =>
     \/ IsClearCall
     \/ \E o \in DrainsDoneNow : prints'[o.id].ddone

\* C22: a step leaves the pending buffer as it is, appends to it (what it
\* held stays a prefix) or empties it, and it is emptied only by clear() or
\* by the successful completion of a print()'s drain.
C22_BufferSteps == [][C22_Shape /\ C22_EmptiedBy]_vars

C22_Witness ==
  /\ buffer = <<>> /\ Len(log.held) = 2
  /\ \E c \in DOMAIN prints : prints[c].ddone /\ prints[c].touched

\* the session holds an open handle and records no open in flight
IsOpenState ==
  port # NoHandle /\ IsOpen(St, port) /\ openPromise = NoPromise

\* the session holds a handle that close() asked the transport to close
Closing ==
  /\ port # NoHandle /\ ~IsOpen(St, port) /\ openPromise = NoPromise
  /\ handles[port].closing

\* how many of the predicates S hold
HowMany(S) == Cardinality({i \in DOMAIN S : S[i]})

\* C23 (as claimed): in every reachable state the session is in exactly one
\* of the three states Closed, Opening and Open.
C23_OneOfThree == HowMany(<<Closed, Opening, IsOpenState>>) = 1

\* no callback or continuation of the session is waiting to run
AtRest == mq = <<>> /\ RefusedOps = {}

\* C23 (amended): whenever no callback or continuation of the session is
\* waiting to run, the session is in exactly one of the four states Closed,
\* Opening, Open and Closing; and in every state an in-flight open is
\* recorded only together with a handle that is not open.
C23_OneOfFourAtRest ==
  /\ openPromise # NoPromise => port # NoHandle /\ ~IsOpen(St, port)
  /\ AtRest => HowMany(<<Closed, Opening, IsOpenState, Closing>>) = 1

C23_Witness ==
  /\ AtRest /\ Closing
  /\ \E k \in DOMAIN closes : closes[k].pc = "closing" /\ closes[k].h = port

\* the handles open at the transport
LiveHandles == {h \in DOMAIN handles : handles[h].bound}

C24_ClosedBeforeNext == FreshOpen => LiveHandles = {}

\* C24: at most one handle of the session is open at the transport, and
\* when the session constructs and opens a new handle, every handle it had
\* before is closed.
C24_OneLiveHandle ==
  [](Cardinality(LiveHandles) <= 1) /\ [][C24_ClosedBeforeNext]_vars

\* the handles that emit 'open' or 'close' in this step
EmittingNow ==
  {h \in DOMAIN handles : handles'[h].bound # handles[h].bound}

\* C25: an 'open' or 'close' event of a handle that is no longer the
\* session's leaves the session's handle and its in-flight open as they are.
C25_StaleEventIgnored ==
  [][\A h \in EmittingNow :
       h # port => port' = port /\ openPromise' = openPromise]_vars

\* something is under way that will resume print() c: its continuation is
\* queued, or the transport still owes the open it waits for, or its write
\* or its drain; nothing is once an uncaught exception ended the program
UnderWay(c) ==
  /\ ~crashed
  /\ \/ InMq("print", c)
     \/ /\ prints[c].pc = "awaitOpen"
        /\ \E o \in ops : o.op = "open" /\ o.id = prints[c].p
     \/ /\ prints[c].pc \in {"write", "drain"}
        /\ \E o \in ops : o.op \in {"write", "drain"} /\ o.id = c

\* C26: every print() settles once the transport has completed what it was
\* asked for; stated on finite runs: a print() that has not settled always
\* has something under way that will resume it.
C26_NoPrintLeftHanging ==
  \A c \in DOMAIN prints : prints[c].pc \notin Settled => UnderWay(c)

\* print() c resolves in this step
ResolvesNow(c) ==
  prints[c].pc \in {"write", "drain"} /\ prints'[c].pc = "resolved"

IsPrefix(s, t) == Len(s) <= Len(t) /\ SubSeq(t, 1, Len(s)) = s

\* C27 (as claimed): the fragments a resolving print() takes out of the buffer are
\* fragments of the payload it wrote; the fragments appended after the
\* payload was built are still in the buffer once it has resolved.
C27_OnlyWrittenRemoved ==
  [][\A c \in DOMAIN prints :
       ResolvesNow(c) =>
          \E n \in 0..Len(buffer) :
             /\ IsPrefix(Join(SubSeq(buffer, 1, n)), prints[c].data)
             /\ buffer' = SubSeq(buffer, n + 1, Len(buffer))]_vars

C27_Empties ==
  \A c \in DOMAIN prints :
    ResolvesNow(c) => buffer' = <<>> /\ NewWrites = {}

C27_PayloadFixed ==
  \A o \in ops :
    (o.op = "write" /\ prints[o.id].pc = "write") =>
       o.data = prints[o.id].data

\* C27 (amended): a print() that resolves empties the buffer wholesale: the
\* fragments appended while it was in flight are removed with those of its
\* payload, and they are not written, the payload being the one built
\* before the write.
C27_WholesaleClear == [][C27_Empties]_vars /\ []C27_PayloadFixed

C27_Witness ==
  \E c \in log.lost :
    /\ prints[c].pc = "resolved" /\ buffer = <<>>
    /\ prints[c].touched /\ Len(log.held) = 2 /\ log.writes = 1

\* the 'error' listeners of print() calls registered on handle h
PrintListeners(h) ==
  {i \in DOMAIN handles[h].lerror : handles[h].lerror[i].t = "print"}

C28_Removed ==
  \A c \in DOMAIN prints :
    (prints[c].pc \in Settled /\ prints[c].h # NoHandle) =>
       \A i \in PrintListeners(prints[c].h) :
          handles[prints[c].h].lerror[i].id # c

C28_Bounded ==
  \A h \in DOMAIN handles :
    Cardinality(PrintListeners(h)) <=
      Cardinality({c \in DOMAIN prints :
                     prints[c].h = h /\ prints[c].pc \notin Settled})

\* C28: once a print() has settled, the 'error' listener it registered on
\* the handle is registered no more, so a handle carries no more 'error'
\* listeners of print() than it has prints in flight.
C28_ListenerGoneWhenSettled == C28_Removed /\ C28_Bounded
====
